---- MODULE Spec2Model ----
(***************************************************************************)
(* Model of src/train.py: a straight-line script that loads a CSV, splits  *)
(* it 75/25, extracts the label column of both partitions and runs two     *)
(* training cycles (gradient boosting, AdaBoost), each wrapped in an       *)
(* mlflow run.  Every statement of the script is one action; a statement   *)
(* whose library call raises ends the script (nothing is caught).          *)
(***************************************************************************)
EXTENDS Integers, Sequences, FiniteSets, TLC

\* ---- bounds of the explored inputs ----
MaxRows == 3
MaxFeat == 2

\* ---- program constants ----
TestSizeNum == 1
TestSizeDen == 4
LabelCol == "default payment next month"
ExperimentName == "Develop on cloud tutorial"

\* values a label cell of the CSV can take
Labels == {0, 1}
\* names of the feature columns of the CSV (the first ones of the real file)
FeatureCols == <<"LIMIT_BAL", "SEX", "EDUCATION", "MARRIAGE">>
\* exceptions pd.read_csv raises: network unavailable, malformed CSV
LoadErrors == {"URLError", "ParserError"}

VARIABLES ip, error, failedAt, calls,
          credit_df, train_df, test_df,
          y_train, X_train, y_test, X_test,
          experiment, autologOn, active_run_stack, runs,
          clf, ada, y_pred, stdout, reports

vars == <<ip, error, failedAt, calls, credit_df, train_df, test_df,
          y_train, X_train, y_test, X_test,
          experiment, autologOn, active_run_stack, runs,
          clf, ada, y_pred, stdout, reports>>

dataVars == <<credit_df, train_df, test_df, y_train, X_train, y_test, X_test>>
trackVars == <<experiment, autologOn, active_run_stack, runs>>
modelVars == <<clf, ada, y_pred>>
outVars == <<stdout, reports>>

\* ---- sequence helpers ----
InsertAt(s, p, x) == SubSeq(s, 1, p - 1) \o <<x>> \o SubSeq(s, p, Len(s))
RemoveAt(s, p) == SubSeq(s, 1, p - 1) \o SubSeq(s, p + 1, Len(s))
Range(s) == {s[i] : i \in 1..Len(s)}
Count(s, x) == Cardinality({i \in 1..Len(s) : s[i] = x})
Min(S) == CHOOSE x \in S : \A y \in S : x <= y

RECURSIVE Sorted(_)
Sorted(S) == IF S = {} THEN <<>> ELSE <<Min(S)>> \o Sorted(S \ {Min(S)})

Perms(n) == {f \in [1..n -> 1..n] : \A i, j \in 1..n : f[i] = f[j] => i = j}

\* ---- the values not yet assigned ----
NoFrame == [columns |-> <<>>, index |-> <<>>, data |-> <<>>]
NoSeries == [index |-> <<>>, values |-> <<>>]
NoArray == [shape |-> <<0, 0>>, data |-> <<>>]
NoModel == [kind |-> "none", created_in |-> 0, fitted |-> FALSE, classes |-> {}]
NoPred == [values |-> <<>>, model |-> "none", run |-> 0]

\* ---- control flow: the statements of the script in program order ----
ProgramSecondStartEarly ==
  <<"load", "split", "pop_train", "values_train", "pop_test", "values_test",
    "set_experiment", "autolog",
    "print_shape1", "start_run1", "new_clf", "fit1", "predict1", "report1",
    "print_shape2", "start_run2", "end_run1", "new_ada", "fit2", "predict2",
    "report2", "end_run2">>

ProgramNoFinalEnd ==
  <<"load", "split", "pop_train", "values_train", "pop_test", "values_test",
    "set_experiment", "autolog",
    "print_shape1", "start_run1", "new_clf", "fit1", "predict1", "report1",
    "end_run1",
    "print_shape2", "start_run2", "new_ada", "fit2", "predict2", "report2">>

ProgramStaleReport ==
  <<"load", "split", "pop_train", "values_train", "pop_test", "values_test",
    "set_experiment", "autolog",
    "print_shape1", "start_run1", "new_clf", "fit1", "predict1", "report1",
    "end_run1",
    "print_shape2", "start_run2", "new_ada", "fit2", "report2", "predict2",
    "end_run2">>

ProgramResplit ==
  <<"load", "split", "pop_train", "values_train", "pop_test", "values_test",
    "set_experiment", "autolog",
    "print_shape1", "start_run1", "new_clf", "fit1", "predict1", "report1",
    "end_run1",
    "split", "pop_train", "values_train", "pop_test", "values_test",
    "print_shape2", "start_run2", "new_ada", "fit2", "predict2", "report2",
    "end_run2">>

Program ==
  <<"load", "split", "pop_train", "values_train", "pop_test", "values_test",
    "set_experiment", "autolog",
    "print_shape1", "start_run1", "new_clf", "fit1", "predict1", "report1",
    "end_run1",
    "print_shape2", "start_run2", "new_ada", "fit2", "predict2", "report2",
    "end_run2">>

\* the statement about to run; ip = 0 once an exception ended the script
pc == IF ip = 0 THEN "aborted"
      ELSE IF ip > Len(Program) THEN "done"
      ELSE Program[ip]

\* the record of one executed statement: what was active when it ran
Call(l) == [step |-> l, nActive |-> Len(active_run_stack),
            run |-> IF Len(active_run_stack) > 0
                    THEN active_run_stack[Len(active_run_stack)] ELSE 0,
            exp |-> experiment, autolog |-> autologOn]

\* ---- pandas / sklearn / mlflow calls as the script uses them ----

\* the table behind the URL: n rows, nf feature columns, the label column at
\* position p when present
read_csv(n, nf, hasLabel, p, lab) ==
  LET feats == SubSeq(FeatureCols, 1, nf)
      featrow(i) == [j \in 1..nf |-> 10 * i + j]
  IN [columns |-> IF hasLabel THEN InsertAt(feats, p, LabelCol) ELSE feats,
      index |-> [i \in 1..n |-> i],
      data |-> [i \in 1..n |->
                 IF hasLabel THEN InsertAt(featrow(i), p, lab[i])
                 ELSE featrow(i)]]

iloc(df, idx) ==
  [columns |-> df.columns,
   index |-> [k \in 1..Len(idx) |-> df.index[idx[k]]],
   data |-> [k \in 1..Len(idx) |-> df.data[idx[k]]]]

n_test(n) == (n * TestSizeNum + TestSizeDen - 1) \div TestSizeDen
n_train(n) == (n * (TestSizeDen - TestSizeNum)) \div TestSizeDen

\* train_test_split raises when a partition would be empty
split_ok(df) == n_train(Len(df.index)) > 0 /\ n_test(Len(df.index)) > 0

train_test_split_lossy(df, perm) ==
  LET n == Len(df.index)
      nt == n \div TestSizeDen
  IN [test |-> iloc(df, SubSeq(perm, 1, nt)),
      train |-> iloc(df, SubSeq(perm, nt + 1, nt + n_train(n)))]

train_test_split(df, perm) ==
  LET n == Len(df.index)
  IN [test |-> iloc(df, SubSeq(perm, 1, n_test(n))),
      train |-> iloc(df, SubSeq(perm, n_test(n) + 1, n_test(n) + n_train(n)))]

has_column(df, col) == \E p \in 1..Len(df.columns) : df.columns[p] = col

pop_keep(df, col) ==
  LET p == CHOOSE q \in 1..Len(df.columns) : df.columns[q] = col
  IN [series |-> [index |-> df.index,
                  values |-> [i \in 1..Len(df.data) |-> df.data[i][p]]],
      frame |-> df]

\* DataFrame.pop: the column as a series, and the frame without it
pop(df, col) ==
  LET p == CHOOSE q \in 1..Len(df.columns) : df.columns[q] = col
  IN [series |-> [index |-> df.index,
                  values |-> [i \in 1..Len(df.data) |-> df.data[i][p]]],
      frame |-> [columns |-> RemoveAt(df.columns, p),
                 index |-> df.index,
                 data |-> [i \in 1..Len(df.data) |-> RemoveAt(df.data[i], p)]]]

\* DataFrame.values
values(df) == [shape |-> <<Len(df.index), Len(df.columns)>>, data |-> df.data]

start_run(stack, rs) ==
  [stack |-> Append(stack, Len(rs) + 1),
   runs |-> Append(rs, [status |-> "RUNNING", logged |-> <<>>])]

end_run_keep(stack, rs) == [stack |-> stack, runs |-> rs]

end_run(stack, rs) ==
  IF Len(stack) > 0
  THEN [stack |-> SubSeq(stack, 1, Len(stack) - 1),
        runs |-> [rs EXCEPT ![stack[Len(stack)]].status = "FINISHED"]]
  ELSE [stack |-> stack, runs |-> rs]

\* what autologging records in the active run for one fit or predict
autolog_record(rs, stack, on, what) ==
  IF on /\ Len(stack) > 0
  THEN [rs EXCEPT ![stack[Len(stack)]].logged = Append(@, what)]
  ELSE rs

classification_report_pred_only(yt, yp) ==
  LET labels == Sorted(Range(yp))
  IN [k \in 1..Len(labels) |->
        [kind |-> "class", label |-> labels[k],
         support |-> Count(yt, labels[k]),
         predicted |-> Count(yp, labels[k])]]
     \o <<[kind |-> "accuracy", label |-> -1, support |-> Len(yt),
           predicted |-> Len(yp)],
          [kind |-> "macro avg", label |-> -1, support |-> Len(yt),
           predicted |-> Len(yp)],
          [kind |-> "weighted avg", label |-> -1, support |-> Len(yt),
           predicted |-> Len(yp)]>>

\* one line per label of y_true or y_pred, then the three summary lines
classification_report(yt, yp) ==
  LET labels == Sorted(Range(yt) \cup Range(yp))
  IN [k \in 1..Len(labels) |->
        [kind |-> "class", label |-> labels[k],
         support |-> Count(yt, labels[k]),
         predicted |-> Count(yp, labels[k])]]
     \o <<[kind |-> "accuracy", label |-> -1, support |-> Len(yt),
           predicted |-> Len(yp)],
          [kind |-> "macro avg", label |-> -1, support |-> Len(yt),
           predicted |-> Len(yp)],
          [kind |-> "weighted avg", label |-> -1, support |-> Len(yt),
           predicted |-> Len(yp)]>>

ActiveRun == IF Len(active_run_stack) > 0
             THEN active_run_stack[Len(active_run_stack)] ELSE 0

\* ---- initial state: the interpreter before line 13 ----
Init ==
  /\ ip = 1
  /\ error = "none"
  /\ failedAt = "none"
  /\ calls = <<>>
  /\ credit_df = NoFrame
  /\ train_df = NoFrame
  /\ test_df = NoFrame
  /\ y_train = NoSeries
  /\ X_train = NoArray
  /\ y_test = NoSeries
  /\ X_test = NoArray
  /\ experiment = "Default"
  /\ autologOn = FALSE
  /\ active_run_stack = <<>>
  /\ runs = <<>>
  /\ clf = NoModel
  /\ ada = NoModel
  /\ y_pred = NoPred
  /\ stdout = <<>>
  /\ reports = <<>>

\* ---- an uncaught exception ends the script where it is raised ----
RaiseAndCleanUp(l, e) ==
  /\ ip' = 0
  /\ error' = e
  /\ failedAt' = l
  /\ calls' = Append(calls, Call(l))
  /\ active_run_stack' = <<>>
  /\ runs' = [r \in 1..Len(runs) |-> [runs[r] EXCEPT !.status = "FAILED"]]
  /\ UNCHANGED <<dataVars, experiment, autologOn, modelVars, outVars>>

Raise(l, e) ==
  /\ ip' = 0
  /\ error' = e
  /\ failedAt' = l
  /\ calls' = Append(calls, Call(l))
  /\ UNCHANGED <<dataVars, trackVars, modelVars, outVars>>

\* a statement that completed
Step(l) ==
  /\ ip' = ip + 1
  /\ calls' = Append(calls, Call(l))
  /\ UNCHANGED <<error, failedAt>>

\* ---- one action per statement of the script ----

LoadFailRetry(e) ==
  /\ Len(calls) < 3
  /\ calls' = Append(calls, Call("load"))
  /\ UNCHANGED <<ip, error, failedAt, dataVars, trackVars, modelVars, outVars>>

\* lines 13-17 sit in no try block and no loop: the exception propagates
LoadFail(e) == Raise("load", e)

Load ==
  /\ pc = "load"
  /\ \/ /\ \E n \in 0..MaxRows, nf \in 0..MaxFeat, hasLabel \in BOOLEAN :
            \E p \in 1..(nf + 1), lab \in [1..n -> Labels] :
              credit_df' = read_csv(n, nf, hasLabel, p, lab)
        /\ Step("load")
        /\ UNCHANGED <<train_df, test_df, y_train, X_train, y_test, X_test,
                       trackVars, modelVars, outVars>>
     \/ \E e \in LoadErrors : LoadFail(e)

Split ==
  /\ pc = "split"
  /\ IF split_ok(credit_df)
     THEN /\ \E perm \in Perms(Len(credit_df.index)) :
               /\ train_df' = train_test_split(credit_df, perm).train
               /\ test_df' = train_test_split(credit_df, perm).test
          /\ Step("split")
          /\ UNCHANGED <<credit_df, y_train, X_train, y_test, X_test,
                         trackVars, modelVars, outVars>>
     ELSE Raise("split", "ValueError")

PopTrain ==
  /\ pc = "pop_train"
  /\ IF has_column(train_df, LabelCol)
     THEN /\ y_train' = pop(train_df, LabelCol).series
          /\ train_df' = pop(train_df, LabelCol).frame
          /\ Step("pop_train")
          /\ UNCHANGED <<credit_df, test_df, X_train, y_test, X_test,
                         trackVars, modelVars, outVars>>
     ELSE Raise("pop_train", "KeyError")

ValuesTrain ==
  /\ pc = "values_train"
  /\ X_train' = values(train_df)
  /\ Step("values_train")
  /\ UNCHANGED <<credit_df, train_df, test_df, y_train, y_test, X_test,
                 trackVars, modelVars, outVars>>

PopTest ==
  /\ pc = "pop_test"
  /\ IF has_column(test_df, LabelCol)
     THEN /\ y_test' = pop(test_df, LabelCol).series
          /\ test_df' = pop(test_df, LabelCol).frame
          /\ Step("pop_test")
          /\ UNCHANGED <<credit_df, train_df, y_train, X_train, X_test,
                         trackVars, modelVars, outVars>>
     ELSE Raise("pop_test", "KeyError")

ValuesTest ==
  /\ pc = "values_test"
  /\ X_test' = values(test_df)
  /\ Step("values_test")
  /\ UNCHANGED <<credit_df, train_df, test_df, y_train, X_train, y_test,
                 trackVars, modelVars, outVars>>

SetExperiment ==
  /\ pc = "set_experiment"
  /\ \/ /\ experiment' = ExperimentName
        /\ Step("set_experiment")
        /\ UNCHANGED <<dataVars, autologOn, active_run_stack, runs,
                       modelVars, outVars>>
     \/ Raise("set_experiment", "MlflowException")

Autolog ==
  /\ pc = "autolog"
  /\ \/ /\ autologOn' = TRUE
        /\ Step("autolog")
        /\ UNCHANGED <<dataVars, experiment, active_run_stack, runs,
                       modelVars, outVars>>
     \/ Raise("autolog", "MlflowException")

StepName(op, c) == IF c = 1 THEN op \o "1" ELSE op \o "2"

PrintShape(c) ==
  /\ pc = StepName("print_shape", c)
  /\ stdout' = Append(stdout, [kind |-> "shape", shape |-> X_train.shape,
                               lines |-> <<>>])
  /\ Step(pc)
  /\ UNCHANGED <<dataVars, trackVars, modelVars, reports>>

StartRun(c) ==
  /\ pc = StepName("start_run", c)
  /\ IF Len(active_run_stack) > 0
     THEN Raise(pc, "Exception")
     ELSE \/ /\ active_run_stack' = start_run(active_run_stack, runs).stack
             /\ runs' = start_run(active_run_stack, runs).runs
             /\ Step(pc)
             /\ UNCHANGED <<dataVars, experiment, autologOn, modelVars,
                            outVars>>
          \/ Raise(pc, "MlflowException")

NewModel(c) ==
  /\ pc = (IF c = 1 THEN "new_clf" ELSE "new_ada")
  /\ IF c = 1
     THEN /\ clf' = [kind |-> "GradientBoostingClassifier",
                     created_in |-> ActiveRun, fitted |-> FALSE,
                     classes |-> {}]
          /\ UNCHANGED ada
     ELSE /\ ada' = [kind |-> "AdaBoostClassifier",
                     created_in |-> ActiveRun, fitted |-> FALSE,
                     classes |-> {}]
          /\ UNCHANGED clf
  /\ Step(pc)
  /\ UNCHANGED <<dataVars, trackVars, y_pred, outVars>>

Fit(c) ==
  /\ pc = StepName("fit", c)
  /\ \/ /\ IF c = 1
           THEN /\ clf' = [clf EXCEPT !.fitted = TRUE,
                                      !.classes = Range(y_train.values)]
                /\ UNCHANGED ada
           ELSE /\ ada' = [ada EXCEPT !.fitted = TRUE,
                                      !.classes = Range(y_train.values)]
                /\ UNCHANGED clf
        /\ runs' = autolog_record(runs, active_run_stack, autologOn,
                      <<"fit", IF c = 1 THEN clf.kind ELSE ada.kind>>)
        /\ Step(pc)
        /\ UNCHANGED <<dataVars, experiment, autologOn, active_run_stack,
                       y_pred, outVars>>
     \/ Raise(pc, "ValueError")

Predict(c) ==
  /\ pc = StepName("predict", c)
  /\ LET m == IF c = 1 THEN clf ELSE ada
     IN IF ~m.fitted
        THEN Raise(pc, "NotFittedError")
        ELSE \/ /\ \E v \in [1..Len(X_test.data) -> m.classes] :
                     y_pred' = [values |-> v, model |-> m.kind,
                                run |-> ActiveRun]
                /\ Step(pc)
                /\ UNCHANGED <<dataVars, trackVars, clf, ada, outVars>>
             \/ Raise(pc, "ValueError")

Report(c) ==
  /\ pc = StepName("report", c)
  /\ \/ /\ stdout' = Append(stdout,
                         [kind |-> "report", shape |-> <<0, 0>>,
                          lines |-> classification_report(y_test.values,
                                                          y_pred.values)])
        /\ reports' = Append(reports,
                          [cycle |-> c, run |-> ActiveRun,
                           predRun |-> y_pred.run, model |-> y_pred.model,
                           y_true |-> y_test.values,
                           y_pred |-> y_pred.values,
                           lines |-> classification_report(y_test.values,
                                                           y_pred.values)])
        /\ Step(pc)
        /\ UNCHANGED <<dataVars, trackVars, modelVars>>
     \/ Raise(pc, "ValueError")

EndRun(c) ==
  /\ pc = StepName("end_run", c)
  /\ \/ /\ active_run_stack' = end_run(active_run_stack, runs).stack
        /\ runs' = end_run(active_run_stack, runs).runs
        /\ Step(pc)
        /\ UNCHANGED <<dataVars, experiment, autologOn, modelVars, outVars>>
     \/ \* the run is popped before the backend is told; the backend call
        \* may raise
        /\ active_run_stack' = end_run(active_run_stack, runs).stack
        /\ ip' = 0
        /\ error' = "MlflowException"
        /\ failedAt' = pc
        /\ calls' = Append(calls, Call(pc))
        /\ UNCHANGED <<dataVars, experiment, autologOn, runs, modelVars,
                       outVars>>

Cycles == {1, 2}

Next ==
  \/ Load
  \/ Split
  \/ PopTrain
  \/ ValuesTrain
  \/ PopTest
  \/ ValuesTest
  \/ SetExperiment
  \/ Autolog
  \/ \E c \in Cycles : PrintShape(c)
  \/ \E c \in Cycles : StartRun(c)
  \/ \E c \in Cycles : NewModel(c)
  \/ \E c \in Cycles : Fit(c)
  \/ \E c \in Cycles : Predict(c)
  \/ \E c \in Cycles : Report(c)
  \/ \E c \in Cycles : EndRun(c)

Spec == Init /\ [][Next]_vars

\* the interpreter always runs the next statement
FairSpec == Spec /\ WF_vars(Next)

\* ---- vocabulary of the properties ----
Called(l) == \E i \in 1..Len(calls) : calls[i].step = l
CountCalls(l) == Cardinality({i \in 1..Len(calls) : calls[i].step = l})
\* statement l ran to completion
Completed(l) == Called(l) /\ failedAt # l
IndexOf(l) == CHOOSE i \in 1..Len(calls) : calls[i].step = l
LastCall == IF Len(calls) > 0 THEN calls[Len(calls)].step ELSE "none"
StartSteps == {"start_run1", "start_run2"}
EndSteps == {"end_run1", "end_run2"}
Cycle1Work == {"fit1", "predict1", "report1"}
Cycle2Steps == {"start_run2", "new_ada", "fit2", "predict2", "report2",
                "end_run2"}
FitPredictSteps == {"fit1", "predict1", "fit2", "predict2"}
ExtractSteps == {"split", "pop_train", "values_train", "pop_test",
                 "values_test"}
IsInjective(s) == \A i, j \in 1..Len(s) : s[i] = s[j] => i = j
LabelPos(df) == CHOOSE q \in 1..Len(df.columns) : df.columns[q] = LabelCol
ClassLines(lines) == {k \in 1..Len(lines) : lines[k].kind = "class"}
LinesFor(lines, l) == {k \in ClassLines(lines) : lines[k].label = l}

\* C1: the number of active runs is always 0 or 1; it is 1 right after every
\* start_run() that returned and 0 right after every end_run(); start_run()
\* is never called while a run is active.
C1_AtMostOneActiveRun ==
  /\ Len(active_run_stack) \in {0, 1}
  /\ (LastCall \in StartSteps /\ pc # "aborted") => Len(active_run_stack) = 1
  /\ LastCall \in EndSteps => Len(active_run_stack) = 0
  /\ \A i \in 1..Len(calls) :
       calls[i].step \in StartSteps => calls[i].nActive = 0

C1_Witness ==
  /\ LastCall = "start_run2"
  /\ Len(active_run_stack) = 1
  /\ Called("end_run1")

\* C2: no statement of the AdaBoost cycle runs before end_run of the gradient
\* boosting cycle has closed the first run.
C2_CyclesStrictlyOrdered ==
  /\ \A i \in 1..Len(calls) :
       calls[i].step \in Cycle2Steps =>
         /\ \E j \in 1..(i - 1) : calls[j].step = "end_run1"
         /\ Len(runs) >= 1
         /\ runs[1].status = "FINISHED"
  /\ pc \in Cycle2Steps =>
       /\ Completed("end_run1")
       /\ runs[1].status = "FINISHED"
       /\ \A k \in 1..Len(active_run_stack) : active_run_stack[k] # 1

C2_Witness == pc = "fit2" /\ Len(runs) = 2 /\ runs[1].status = "FINISHED"

TwoRunsStartedAndEnded ==
  /\ CountCalls("start_run1") = 1 /\ CountCalls("start_run2") = 1
  /\ CountCalls("end_run1") = 1 /\ CountCalls("end_run2") = 1
  /\ Len(runs) = 2
  /\ \A r \in 1..2 : runs[r].status = "FINISHED"
  /\ runs[1].logged = <<<<"fit", "GradientBoostingClassifier">>>>
  /\ runs[2].logged = <<<<"fit", "AdaBoostClassifier">>>>
  /\ clf.created_in = 1 /\ ada.created_in = 2
  /\ active_run_stack = <<>>
  /\ IndexOf("start_run1") < IndexOf("end_run1")
  /\ IndexOf("end_run1") < IndexOf("start_run2")
  /\ IndexOf("start_run2") < IndexOf("end_run2")

\* C4: an execution in which nothing raises terminates, and at termination
\* exactly two runs were started and ended (gradient boosting, then AdaBoost)
\* and no run is active.
C4_FailureFreeRunsClosed ==
  /\ [](pc = "done" => TwoRunsStartedAndEnded)
  /\ <>(pc \in {"done", "aborted"})

C4_Witness == pc = "done" /\ Len(runs) = 2 /\ active_run_stack = <<>>

\* C5: once the split returned, every dataset row is in exactly one of the
\* two partitions: the sizes add up and the partitions share no row.
C5_SplitDisjointExhaustive ==
  Completed("split") =>
    /\ Len(train_df.index) + Len(test_df.index) = Len(credit_df.index)
    /\ IsInjective(train_df.index) /\ IsInjective(test_df.index)
    /\ Range(train_df.index) \cap Range(test_df.index) = {}
    /\ Range(train_df.index) \cup Range(test_df.index) = Range(credit_df.index)
    /\ pc = "pop_train" =>
         /\ \A k \in 1..Len(train_df.index) :
              train_df.data[k] = credit_df.data[train_df.index[k]]
         /\ \A k \in 1..Len(test_df.index) :
              test_df.data[k] = credit_df.data[test_df.index[k]]

C5_Witness ==
  /\ pc = "pop_train"
  /\ Len(credit_df.index) >= 3
  /\ Len(train_df.index) >= 2
  /\ Len(test_df.index) >= 1

\* what extraction from partition df (labels y, features X) must have produced
Extracted(df, y, X, withX) ==
  /\ ~has_column(df, LabelCol)
  /\ Len(df.columns) = Len(credit_df.columns) - 1
  /\ y.index = df.index
  /\ Len(y.values) = Len(df.index)
  /\ \A k \in 1..Len(df.index) :
       y.values[k] = credit_df.data[df.index[k]][LabelPos(credit_df)]
  /\ withX =>
       /\ X.shape = <<Len(df.index), Len(credit_df.columns) - 1>>
       /\ Len(X.data) = Len(df.index)
       /\ \A k \in 1..Len(df.index) :
            X.data[k] = RemoveAt(credit_df.data[df.index[k]],
                                 LabelPos(credit_df))

\* C6: extraction returns one label per partition row, in row order, and
\* removes the label column from the partition, so the feature matrix has the
\* partition's rows and one column less than the dataset; until its
\* extraction each partition has the label column; without the column the
\* extraction raises KeyError.
C6_LabelExtraction ==
  /\ (Completed("split") /\ has_column(credit_df, LabelCol)) =>
       /\ ~Called("pop_train") => has_column(train_df, LabelCol)
       /\ ~Called("pop_test") => has_column(test_df, LabelCol)
  /\ Completed("pop_train") =>
       /\ has_column(credit_df, LabelCol)
       /\ Extracted(train_df, y_train, X_train, Completed("values_train"))
  /\ Completed("pop_test") =>
       /\ has_column(credit_df, LabelCol)
       /\ Extracted(test_df, y_test, X_test, Completed("values_test"))
  /\ (Completed("split") /\ ~has_column(credit_df, LabelCol)) =>
       /\ pc \in {"pop_train", "aborted"}
       /\ pc = "aborted" => (failedAt = "pop_train" /\ error = "KeyError")
  /\ failedAt \in {"pop_train", "pop_test"} =>
       (error = "KeyError" /\ ~has_column(credit_df, LabelCol))

C6_Witness ==
  /\ pc = "set_experiment"
  /\ Len(y_train.values) >= 2
  /\ Len(y_test.values) >= 1
  /\ Len(credit_df.columns) >= 2

\* C7: the split and the label extraction run once, and from the end of the
\* extraction on no statement changes X_train, y_train, X_test or y_test.
C7_SplitShared ==
  /\ [](\A l \in ExtractSteps : CountCalls(l) <= 1)
  /\ [](pc = "done" => \A l \in ExtractSteps : CountCalls(l) = 1)
  /\ [][Completed("values_test") =>
          UNCHANGED <<X_train, y_train, X_test, y_test>>]_vars

C7_Witness ==
  /\ pc = "done"
  /\ Len(reports) = 2
  /\ reports[1].y_true = y_test.values
  /\ reports[2].y_true = y_test.values

\* C8 as stated: a failed load fails with DataAccessError.
C8_Original ==
  failedAt = "load" => error = "DataAccessError"

\* C8 as amended: a failed load ends the script with the exception read_csv
\* raised (URLError or ParserError, not translated); the load is attempted
\* once, nothing is split, no experiment is set, no run is started and
\* nothing is printed.
C8_LoadFailureAborts ==
  /\ CountCalls("load") <= 1
  /\ failedAt = "load" =>
       /\ error \in LoadErrors
       /\ pc = "aborted"
       /\ Len(calls) = 1
       /\ credit_df = NoFrame /\ train_df = NoFrame /\ test_df = NoFrame
       /\ experiment = "Default"
       /\ ~autologOn
       /\ runs = <<>> /\ active_run_stack = <<>>
       /\ stdout = <<>>

C8_Witness == failedAt = "load" /\ pc = "aborted" /\ error = "URLError"

\* C9 as stated: the per-label lines of each report are exactly the distinct
\* label values of y_test, one line each.
C9_Original ==
  \A r \in 1..Len(reports) :
    /\ \A l \in Range(reports[r].y_true) :
         Cardinality(LinesFor(reports[r].lines, l)) = 1
    /\ Cardinality(ClassLines(reports[r].lines))
         = Cardinality(Range(reports[r].y_true))

\* C9 as amended: each report has exactly one line per distinct label value
\* present in y_test or in y_pred (so every label of the test set has exactly
\* one line, and a label that is only predicted has one too), followed by
\* the three summary lines.
C9_ReportLines ==
  /\ Len(stdout) >= Len(reports)
  /\ \A r \in 1..Len(reports) :
       LET lines == reports[r].lines
           labs == Range(reports[r].y_true) \cup Range(reports[r].y_pred)
       IN /\ \A l \in labs : Cardinality(LinesFor(lines, l)) = 1
          /\ Cardinality(ClassLines(lines)) = Cardinality(labs)
          /\ \A l \in Range(reports[r].y_true) :
               \E k \in LinesFor(lines, l) :
                 lines[k].support = Count(reports[r].y_true, l)
          /\ Len(lines) = Cardinality(labs) + 3
          /\ \E k \in 1..Len(stdout) :
               stdout[k].kind = "report" /\ stdout[k].lines = lines

C9_Witness ==
  /\ Len(reports) = 2
  /\ Range(reports[2].y_pred) \ Range(reports[2].y_true) # {}

\* C10: every fit and predict runs with exactly one active run, the
\* experiment set and autologging on; a run has one fit, then one predict, on
\* the model created in it; a report is computed from predictions made in the
\* run it is printed in.
C10_FitPredictInsideOwnRun ==
  /\ \A i \in 1..Len(calls) :
       calls[i].step \in FitPredictSteps =>
         /\ calls[i].nActive = 1
         /\ calls[i].exp = ExperimentName
         /\ calls[i].autolog
  /\ \A r \in 1..Len(runs) :
       LET fits == {i \in 1..Len(calls) :
                      calls[i].run = r /\ calls[i].step \in {"fit1", "fit2"}}
           preds == {i \in 1..Len(calls) :
                       calls[i].run = r
                       /\ calls[i].step \in {"predict1", "predict2"}}
       IN /\ Cardinality(fits) <= 1 /\ Cardinality(preds) <= 1
          /\ \A p \in preds : \E f \in fits :
               /\ f < p
               /\ calls[f].step = (IF calls[p].step = "predict1"
                                   THEN "fit1" ELSE "fit2")
          /\ runs[r].status = "FINISHED" =>
               (Cardinality(fits) = 1 /\ Cardinality(preds) = 1)
  /\ \A i \in 1..Len(calls) :
       /\ calls[i].step \in {"fit1", "predict1"} => clf.created_in = calls[i].run
       /\ calls[i].step \in {"fit2", "predict2"} => ada.created_in = calls[i].run
  /\ \A k \in 1..Len(reports) :
       /\ reports[k].run # 0
       /\ reports[k].predRun = reports[k].run
       /\ reports[k].model = (IF reports[k].cycle = 1
                              THEN "GradientBoostingClassifier"
                              ELSE "AdaBoostClassifier")

C10_Witness ==
  /\ Len(reports) = 2
  /\ reports[2].run = 2
  /\ reports[2].model = "AdaBoostClassifier"
  /\ y_pred.run = 2
====
